---------------------------- MODULE Spec2Model ----------------------------
(***************************************************************************)
(* ZenTrack reminder scheduler (src-tauri/src/reminders.rs and the task    *)
(* commands of src-tauri/src/main.rs) as a state machine.                  *)
(*                                                                         *)
(* Time is a scaled integer axis.  A timestamp string is a record          *)
(* [fmt, clock, off]: the grammar it is written in, the wall-clock reading *)
(* it spells and the UTC offset it carries.  The instants 0..MaxInstant    *)
(* stand for the years 0000..9999 that chrono writes with four digits;     *)
(* outside of them to_rfc3339 writes a signed year, which                  *)
(* parse_from_rfc3339 does not read back.                                  *)
(***************************************************************************)
EXTENDS Integers, FiniteSets, Sequences, TLC

\* ------------------------------------------------------------------ bounds
\* Rows ever inserted into tasks / reminders (AUTOINCREMENT never reuses an id).
MaxTasks == 1
MaxReminders == 2
\* Last instant of the four-digit years.
MaxInstant == 3
\* Latest instant a caller names in a due date or a reminder time.
MaxInputInstant == 2
\* Latest reading of the wall clock.
MaxNow == 2

\* Host timezone: UTC+LocalOffset, with one wall-clock reading, GapClock,
\* that does not exist (spring-forward gap).
LocalOffset == 1
GapClock == MaxInputInstant + LocalOffset + 1
\* A local clock reading the host's timezone has twice (clocks set back).
FoldClock == GapClock + 1
\* Clock readings in a day: "%H:%M" keeps the reading within the day.
DayLength == 2
\* Rows the subjects table may come to hold.
MaxSubjects == 1

\* ----------------------------------------------------------------- strings
Str(f, c, o) == [fmt |-> f, clock |-> c, off |-> o]

\* Option<String>::None, and the strings "" and "not-a-date".
NoneStr == Str("none", 0, 0)
EmptyStr == Str("empty", 0, 0)
BadStr == Str("text", 0, 0)

Some(t) == [some |-> TRUE, v |-> t]
None == [some |-> FALSE, v |-> 0]

\* Mutant: the naive local time is taken as UTC.
LocalAsUtc(c) == Some(c)

\* Local.from_local_datetime(&dt).single(): None for a reading the timezone
\* skips and for one it has twice.
LocalSingle(c) ==
    IF c \in {GapClock, FoldClock} THEN None ELSE Some(c - LocalOffset)

\* Mutant: a text no format reads is taken for the epoch instead of refused.
normalize_datetime_or_epoch(raw) ==
    IF raw.fmt = "rfc3339" THEN Some(raw.clock - raw.off)
    ELSE IF raw.fmt \in {"local_minute", "local_seconds"} THEN LocalSingle(raw.clock)
    ELSE Some(0)

\* normalize_datetime: RFC3339 first, then "%Y-%m-%dT%H:%M", then
\* "%Y-%m-%d %H:%M:%S", both in the host's timezone.
normalize_datetime(raw) ==
    IF raw.fmt = "rfc3339" THEN Some(raw.clock - raw.off)
    ELSE IF raw.fmt = "local_minute" THEN LocalSingle(raw.clock)
    ELSE IF raw.fmt = "local_seconds" THEN LocalSingle(raw.clock)
    ELSE None

\* DateTime<Utc>::to_rfc3339: four-digit years as "YYYY-..+00:00", any other
\* year with an explicit sign.
to_rfc3339(t) ==
    IF t >= 0 /\ t <= MaxInstant THEN Str("rfc3339", t, 0)
    ELSE Str("signed_year", t, 0)

\* Option<&str>::and_then(normalize_datetime)
NormalizeOpt(raw) == IF raw.fmt = "none" THEN None ELSE normalize_datetime(raw)

\* Byte order of the stored strings (the order of idx_reminders_unique within
\* one task): '+' < '-' < digits.
StrClass(s) == IF s.fmt = "signed_year" THEN (IF s.clock > 0 THEN 0 ELSE 1) ELSE 2
StrWithin(s) == IF s.fmt = "signed_year" /\ s.clock < 0 THEN 0 - s.clock ELSE s.clock
StrLess(a, b) ==
    \/ StrClass(a) < StrClass(b)
    \/ StrClass(a) = StrClass(b) /\ StrWithin(a) < StrWithin(b)

\* ------------------------------------------------------------ caller input
InputInstants == 1..MaxInputInstant

\* What a caller may pass as remind_at: every accepted grammar, a reading in
\* the gap, and a string outside the grammars.
ReminderInputs ==
    {Str("rfc3339", t + LocalOffset, LocalOffset) : t \in InputInstants}
    \cup {Str("local_minute", t + LocalOffset, 0) : t \in InputInstants}
    \cup {Str("local_seconds", t + LocalOffset, 0) : t \in InputInstants}
    \cup {Str("local_minute", GapClock, 0), BadStr}

\* What a caller may pass as Task.due_date (Option<String>).
DueInputs ==
    {Str("local_minute", t + LocalOffset, 0) : t \in InputInstants}
    \cup {NoneStr, BadStr}

\* ------------------------------------------------------------------- state
VARIABLES
    tasks,        \* table tasks: id -> [due_date]
    taskSeq,      \* sqlite_sequence of tasks
    reminders,    \* table reminders: id -> [task_id, remind_at, triggered]
    reminderSeq,  \* sqlite_sequence of reminders
    now,          \* the wall clock (Utc::now)
    up,           \* the process is running
    lock,         \* holder of the Mutex<Connection>: "free", "worker" or "handler"
    wpc,          \* position of the worker thread
    scanNow,      \* `now` of the running scan (0 outside a scan)
    cursor,       \* rowid the scan's SELECT has stepped to (0 outside a scan)
    last,         \* the step taken last: a command as it returned, or Idle
    fired,        \* history: ids shown a notification since their remind_at last changed value
    delivered,    \* history: ids shown a notification since recalculation last rewrote them
    hpc,          \* position of the command handler running on the main thread
    subjects      \* table subjects: the number of its rows

vars == <<tasks, taskSeq, reminders, reminderSeq, now, up, lock, wpc, scanNow,
          cursor, last, fired, delivered, hpc, subjects>>

storeVars == <<tasks, taskSeq, reminders, reminderSeq>>
workerVars == <<wpc, scanNow, cursor>>
histVars == <<fired, delivered>>
handlerVars == <<hpc, subjects>>

\* A command as it returned: its name, its id argument, its string argument,
\* its result, and (update_task) the reminders whose UPDATE ran / was refused
\* by the unique index / whose triggered flag went from 1 to 0.
Step(op, id, raw, result) ==
    [op |-> op, id |-> id, raw |-> raw, result |-> result,
     updated |-> {}, skipped |-> {}, reset |-> {}, rows |-> <<>>,
     shown |-> <<>>]

\* A step of the running worker or of the clock.
Idle == Step("idle", 0, NoneStr, "")

\* ----------------------------------------------------------- SQL statements
\* rusqlite::Error::SqliteFailure(ffi::Error { code, .. }, message)
SqlError(code, message) == [code |-> code, message |-> message]
SqlOk == SqlError("Ok", "")
ErrUnique == SqlError("ConstraintViolation", "UNIQUE constraint failed")
ErrForeignKey == SqlError("ConstraintViolation", "FOREIGN KEY constraint failed")

\* Mutant: the unique index is missing.
NoUniqueIndex(rs, self, task_id, remind_at) == FALSE

\* idx_reminders_unique: another row holds (task_id, remind_at).
UniqueConflict(rs, self, task_id, remind_at) ==
    \E j \in DOMAIN rs :
        j # self /\ rs[j].task_id = task_id /\ rs[j].remind_at = remind_at

\* Mutant: the table without AUTOINCREMENT: the new rowid is the largest one
\* stored plus one, so the id of a deleted last row is given out again.
InsertReminderReusingId(rs, ts, seq, task_id, remind_at) ==
    IF UniqueConflict(rs, 0, task_id, remind_at)
    THEN [err |-> ErrUnique, rs |-> rs]
    ELSE IF task_id \notin DOMAIN ts
    THEN [err |-> ErrForeignKey, rs |-> rs]
    ELSE LET id == IF DOMAIN rs = {} THEN 1
                   ELSE 1 + CHOOSE i \in DOMAIN rs : \A j \in DOMAIN rs : i >= j
         IN  [err |-> SqlOk,
              rs |-> [i \in DOMAIN rs \cup {id} |->
                        IF i = id
                        THEN [task_id |-> task_id, remind_at |-> remind_at,
                              triggered |-> FALSE]
                        ELSE rs[i]]]

\* INSERT INTO reminders (task_id, remind_at) VALUES (?1, ?2); triggered
\* defaults to 0.  Returns the error ("" for none) and the table.
InsertReminder(rs, ts, seq, task_id, remind_at) ==
    IF UniqueConflict(rs, 0, task_id, remind_at)
    THEN [err |-> ErrUnique, rs |-> rs]
    ELSE IF task_id \notin DOMAIN ts
    THEN [err |-> ErrForeignKey, rs |-> rs]
    ELSE [err |-> SqlOk,
          rs |-> [i \in DOMAIN rs \cup {seq + 1} |->
                    IF i = seq + 1
                    THEN [task_id |-> task_id, remind_at |-> remind_at,
                          triggered |-> FALSE]
                    ELSE rs[i]]]

\* Mutant: UPDATE reminders SET remind_at = ?1 WHERE id = ?2
UpdateRemindAtKeepsFlag(rs, id, remind_at) ==
    IF UniqueConflict(rs, id, rs[id].task_id, remind_at)
    THEN [err |-> ErrUnique, rs |-> rs]
    ELSE [err |-> SqlOk, rs |-> [rs EXCEPT ![id].remind_at = remind_at]]

\* UPDATE reminders SET remind_at = ?1, triggered = 0 WHERE id = ?2
UpdateRemindAt(rs, id, remind_at) ==
    IF UniqueConflict(rs, id, rs[id].task_id, remind_at)
    THEN [err |-> ErrUnique, rs |-> rs]
    ELSE [err |-> SqlOk,
          rs |-> [rs EXCEPT ![id] = [@ EXCEPT !.remind_at = remind_at,
                                              !.triggered = FALSE]]]

\* Mutant: UPDATE reminders SET triggered = 1, without the WHERE.
MarkAllTriggered(rs, id) == [i \in DOMAIN rs |-> [rs[i] EXCEPT !.triggered = TRUE]]

\* Mutant: the UPDATE that sets triggered = 1 is left out.
MarkNothing(rs, id) == rs

\* Mutant: DELETE FROM reminders WHERE id = ?1 in place of the UPDATE.
DeleteInsteadOfMark(rs, id) == [i \in DOMAIN rs \ {id} |-> rs[i]]

\* UPDATE reminders SET triggered = 1 WHERE id = ?1
MarkTriggered(rs, id) ==
    IF id \in DOMAIN rs THEN [rs EXCEPT ![id].triggered = TRUE] ELSE rs

\* Mutant: DELETE FROM reminders WHERE id <= ?1
DeleteUpTo(rs, id) == [i \in {j \in DOMAIN rs : j > id} |-> rs[i]]

\* DELETE FROM reminders WHERE id = ?1
DeleteReminderRow(rs, id) == [i \in DOMAIN rs \ {id} |-> rs[i]]

\* Mutant: foreign keys are off, the reminders of a deleted task stay.
NoCascade(rs, task_id) == rs

\* DELETE FROM tasks WHERE id = ?1, with ON DELETE CASCADE on reminders.task_id
CascadeDelete(rs, task_id) ==
    [i \in {j \in DOMAIN rs : rs[j].task_id # task_id} |-> rs[i]]

\* err.to_string().to_lowercase().contains("unique")
MentionsUnique(err) == err.message = ErrUnique.message

\* Mutant: only an error code SQLite does not have is taken for a collision.
is_unique_violation_by_code(err) == err.code = "UniqueViolation"

is_unique_violation(err) ==
    err.code = "ConstraintViolation" \/ MentionsUnique(err)

\* ------------------------------------------------------------ recalculation
\* The rows of SELECT id, remind_at FROM reminders WHERE task_id = ?1 that the
\* statement has not stepped over yet.  SQLite answers it from the covering
\* index idx_reminders_unique, in the order of remind_at, and rusqlite steps it
\* one row per loop iteration: `at` is the key the statement stands on
\* (NoneStr before the first step), and a row the loop has moved to a later
\* key is stepped over again.
RowsAhead(rs, task_id, at) ==
    {i \in DOMAIN rs :
        /\ rs[i].task_id = task_id
        /\ (at.fmt = "none" \/ StrLess(at, rs[i].remind_at))}

NextRow(rs, task_id, at) ==
    CHOOSE i \in RowsAhead(rs, task_id, at) :
        \A j \in RowsAhead(rs, task_id, at) :
            j = i \/ StrLess(rs[i].remind_at, rs[j].remind_at)

\* The loop of recalculate_reminders_for_task.  acc is [rs, err, updated,
\* skipped]: the table, the error returned (SqlOk for Ok(())), and the ids
\* whose UPDATE ran / was refused by the unique index.
RECURSIVE RecalcLoop(_, _, _, _, _)
RecalcLoop(acc, task_id, prev_dt, new_dt, at) ==
    IF RowsAhead(acc.rs, task_id, at) = {} THEN acc
    ELSE
        LET id == NextRow(acc.rs, task_id, at)
            remind_at_str == acc.rs[id].remind_at
            rem_dt == normalize_datetime(remind_at_str)
            offset == prev_dt - rem_dt.v
            new_rem_at == new_dt - offset
            normalized == to_rfc3339(new_rem_at)
            upd == UpdateRemindAt(acc.rs, id, normalized)
        IN  IF ~rem_dt.some
            THEN RecalcLoop(acc, task_id, prev_dt, new_dt, remind_at_str)
            ELSE IF upd.err = SqlOk
            THEN RecalcLoop([acc EXCEPT !.rs = upd.rs,
                                        !.updated = @ \cup {id}],
                            task_id, prev_dt, new_dt, remind_at_str)
            ELSE IF is_unique_violation(upd.err)
            THEN RecalcLoop([acc EXCEPT !.skipped = @ \cup {id}],
                            task_id, prev_dt, new_dt, remind_at_str)
            ELSE [acc EXCEPT !.err = upd.err]

\* Mutant: returns early only when both endpoints are missing.
NoAnchorAtAll(prev_dt, new_dt) == ~prev_dt.some /\ ~new_dt.some

\* Either endpoint absent or not normalizable: nothing to do.
NoAnchor(prev_dt, new_dt) == ~prev_dt.some \/ ~new_dt.some

recalculate_reminders_for_task(rs, task_id, previous_due_date, new_due_date) ==
    LET prev_dt == NormalizeOpt(previous_due_date)
        new_dt == NormalizeOpt(new_due_date)
        start == [rs |-> rs, err |-> SqlOk, updated |-> {}, skipped |-> {}]
    IN  IF NoAnchor(prev_dt, new_dt) THEN start
        ELSE RecalcLoop(start, task_id, prev_dt.v, new_dt.v, NoneStr)

\* ------------------------------------------------------------------- Init
\* init_database on a fresh file: empty tables; main() then spawns the worker.
InitStore ==
    /\ tasks = [i \in {} |-> 0]
    /\ taskSeq = 0
    /\ reminders = [i \in {} |-> 0]
    /\ reminderSeq = 0
    /\ now = 0
    /\ up = TRUE
    /\ lock = "free"
    /\ wpc = "ready"
    /\ scanNow = 0
    /\ cursor = 0
    /\ fired = {}
    /\ delivered = {}
    /\ subjects = 0

\* The command handlers taken as single steps (lock, statements, return).
Init == InitStore /\ last = Idle /\ hpc = "atomic"

\* Mutant: a command runs without taking the connection's mutex.
HandlerWithoutLock == up

\* The statements of a command handler run under the guard of
\* state.0.lock(): either the handler is taken as one step, which needs the
\* mutex free, or it stands after its lock() with the guard in hand.
HandlerEnabled ==
    /\ up
    /\ \/ hpc = "atomic" /\ lock = "free"
       \/ hpc = "body" /\ lock = "handler"

\* Where the handler stands after its statements: about to return.
AfterBody(at) == IF at = "body" THEN "return" ELSE at

\* Option<String>::unwrap_or_default
UnwrapOrDefault(due) == IF due.fmt = "none" THEN EmptyStr ELSE due

Restrict(f, S) == [i \in DOMAIN f \cap S |-> f[i]]

\* ---------------------------------------------------------- task commands
add_task(due) ==
    /\ HandlerEnabled
    /\ taskSeq < MaxTasks
    /\ tasks' = [i \in DOMAIN tasks \cup {taskSeq + 1} |->
                    IF i = taskSeq + 1
                    THEN [due_date |-> UnwrapOrDefault(due)]
                    ELSE tasks[i]]
    /\ taskSeq' = taskSeq + 1
    /\ last' = Step("add_task", taskSeq + 1, NoneStr, "ok")
    /\ hpc' = AfterBody(hpc)
    /\ UNCHANGED <<subjects, reminders, reminderSeq, now, up, lock, workerVars, histVars>>

\* SELECT due_date FROM tasks WHERE id = ?1 (.optional())
PreviousDueDate(ts, id) == IF id \in DOMAIN ts THEN ts[id].due_date ELSE NoneStr

\* UPDATE tasks SET ..., due_date = ?3, ... WHERE id = ?10
UpdateTaskRow(ts, id, due) ==
    IF id \in DOMAIN ts
    THEN [ts EXCEPT ![id] = [due_date |-> UnwrapOrDefault(due)]]
    ELSE ts

\* Mutant: update_task returns after the UPDATE of the task row; the
\* recalculation is left to run later.
update_task_row_only(id, due) ==
    /\ HandlerEnabled
    /\ tasks' = UpdateTaskRow(tasks, id, due)
    /\ last' = Step("update_task", id, NoneStr, "ok")
    /\ hpc' = AfterBody(hpc)
    /\ UNCHANGED <<subjects, taskSeq, reminders, reminderSeq, now, up, lock, workerVars, histVars>>

update_task(id, due) ==
    LET previous_due_date == PreviousDueDate(tasks, id)
        rec == recalculate_reminders_for_task(reminders, id, previous_due_date, due)
    IN  /\ HandlerEnabled
        /\ tasks' = UpdateTaskRow(tasks, id, due)
        /\ reminders' = rec.rs
        /\ last' = [Step("update_task", id, NoneStr,
                         IF rec.err = SqlOk THEN "ok" ELSE rec.err.message)
                    EXCEPT !.updated = rec.updated, !.skipped = rec.skipped,
                           !.reset = {i \in DOMAIN reminders :
                                reminders[i].triggered /\ ~rec.rs[i].triggered}]
        /\ fired' = {i \in fired : rec.rs[i].remind_at = reminders[i].remind_at}
        /\ delivered' = delivered \ rec.updated
        /\ hpc' = AfterBody(hpc)
        /\ UNCHANGED <<subjects, taskSeq, reminderSeq, now, up, lock, workerVars>>

delete_task(id) ==
    /\ HandlerEnabled
    /\ tasks' = Restrict(tasks, DOMAIN tasks \ {id})
    /\ reminders' = CascadeDelete(reminders, id)
    /\ last' = Step("delete_task", id, NoneStr, "ok")
    /\ fired' = fired \cap DOMAIN reminders'
    /\ delivered' = delivered \cap DOMAIN reminders'
    /\ hpc' = AfterBody(hpc)
    /\ UNCHANGED <<subjects, taskSeq, reminderSeq, now, up, lock, workerVars>>

\* ------------------------------------------------------ reminder commands
InvalidTime == "Invalid reminder time"
DuplicateReminder == "A reminder already exists for this time"

\* Mutant: the INSERT's error is passed on as it is.
InsertErrorAsIs(err) == err.message

\* map_err of the INSERT: every SqliteFailure becomes the duplicate message.
InsertErrorMessage(err) ==
    IF err.code = "ConstraintViolation" THEN DuplicateReminder ELSE err.message

create_reminder(task_id, remind_at) ==
    LET dt == normalize_datetime(remind_at)
        normalized == to_rfc3339(dt.v)
        ins == InsertReminder(reminders, tasks, reminderSeq, task_id, normalized)
        result == IF ~dt.some THEN InvalidTime
                  ELSE IF ins.err # SqlOk THEN InsertErrorMessage(ins.err)
                  ELSE "ok"
    IN  /\ HandlerEnabled
        /\ result = "ok" => reminderSeq < MaxReminders
        /\ reminders' = IF result = "ok" THEN ins.rs ELSE reminders
        /\ reminderSeq' = IF result = "ok" THEN reminderSeq + 1 ELSE reminderSeq
        /\ last' = Step("create_reminder", task_id, remind_at, result)
        /\ hpc' = AfterBody(hpc)
        /\ UNCHANGED <<subjects, tasks, taskSeq, now, up, lock, workerVars, histVars>>

\* SELECT ... WHERE task_id = ?1 ORDER BY remind_at: the ids in the byte order
\* of their remind_at strings.
RECURSIVE OrderByRemindAt(_, _)
OrderByRemindAt(rs, ids) ==
    IF ids = {} THEN <<>>
    ELSE LET first == CHOOSE i \in ids :
                        \A j \in ids : j = i \/ StrLess(rs[i].remind_at, rs[j].remind_at)
         IN  <<first>> \o OrderByRemindAt(rs, ids \ {first})

\* Reminder { id, task_id, remind_at, triggered } of a row.
ReminderOf(rs, i) ==
    [id |-> i, task_id |-> rs[i].task_id, remind_at |-> rs[i].remind_at,
     triggered |-> rs[i].triggered]

get_reminders_for_task(task_id) ==
    /\ HandlerEnabled
    /\ LET ids == OrderByRemindAt(reminders,
                     {i \in DOMAIN reminders : reminders[i].task_id = task_id})
       IN  last' = [Step("get_reminders_for_task", task_id, NoneStr, "ok")
                    EXCEPT !.rows = [k \in DOMAIN ids |-> ReminderOf(reminders, ids[k])]]
    /\ hpc' = AfterBody(hpc)
    /\ UNCHANGED <<subjects, storeVars, now, up, lock, workerVars, histVars>>

delete_reminder(reminder_id) ==
    /\ HandlerEnabled
    /\ reminders' = DeleteReminderRow(reminders, reminder_id)
    /\ last' = Step("delete_reminder", reminder_id, NoneStr, "ok")
    /\ fired' = fired \ {reminder_id}
    /\ delivered' = delivered \ {reminder_id}
    /\ hpc' = AfterBody(hpc)
    /\ UNCHANGED <<subjects, tasks, taskSeq, reminderSeq, now, up, lock, workerVars>>

\* ------------------------------------------------------------ notification
\* One part of the body; the parts are joined with " • ".
Part(kind, text, hm) == [part |-> kind, text |-> text, hm |-> hm]

\* due.with_timezone(&Local).format("%H:%M")
LocalHourMinute(due) == (due + LocalOffset) % DayLength

\* serde_json::from_str::<Vec<String>>(&reminder.tags), then tags.first()
FirstTag(tags) ==
    IF tags.json /\ Len(tags.list) > 0 THEN Some(tags.list[1]) ELSE None

GenericBody == <<Part("generic", "Task reminder", 0)>>

\* Mutant: the priority is put before the due time.
send_notification_priority_first(title, priority, tags, due_dt, late) ==
    LET p1 == IF priority # "" THEN <<Part("priority", priority, 0)>> ELSE <<>>
        p2 == IF due_dt.some THEN <<Part("due", "", LocalHourMinute(due_dt.v))>> ELSE <<>>
        p3 == IF FirstTag(tags).some
              THEN <<Part("category", FirstTag(tags).v, 0)>> ELSE <<>>
        p4 == IF late THEN <<Part("late", "Late reminder", 0)>> ELSE <<>>
        body_parts == p1 \o p2 \o p3 \o p4
    IN  [title |-> title,
         body |-> IF body_parts = <<>> THEN GenericBody ELSE body_parts]

\* send_notification: the title and the body handed to the notification
\* builder.
send_notification(title, priority, tags, due_dt, late) ==
    LET p1 == IF due_dt.some THEN <<Part("due", "", LocalHourMinute(due_dt.v))>> ELSE <<>>
        p2 == IF priority # "" THEN <<Part("priority", priority, 0)>> ELSE <<>>
        p3 == IF FirstTag(tags).some
              THEN <<Part("category", FirstTag(tags).v, 0)>> ELSE <<>>
        p4 == IF late THEN <<Part("late", "Late reminder", 0)>> ELSE <<>>
        body_parts == p1 \o p2 \o p3 \o p4
    IN  [title |-> title,
         body |-> IF body_parts = <<>> THEN GenericBody ELSE body_parts]

\* The columns title, priority and tags of a task row (tags is JSON text, or
\* text that is not JSON).
Titles == {"Submit report", "Read chapter 4"}
Priorities == {"", "High"}
TagTexts ==
    {[json |-> FALSE, list |-> <<>>], [json |-> TRUE, list |-> <<>>],
     [json |-> TRUE, list |-> <<"Math">>], [json |-> TRUE, list |-> <<"Lab", "Math">>]}

\* ------------------------------------------------------------------ worker
\* Mutant: the SELECT without WHERE r.triggered = 0.
AllRowsAfter(rs, ts, after) ==
    {i \in DOMAIN rs : i > after /\ rs[i].task_id \in DOMAIN ts}

\* The rows of the scan's SELECT (reminders INNER JOIN tasks WHERE
\* triggered = 0) after rowid `after`; SQLite scans reminders by rowid.
PendingAfter(rs, ts, after) ==
    {i \in DOMAIN rs : i > after /\ ~rs[i].triggered /\ rs[i].task_id \in DOMAIN ts}

\* Mutant: the loop takes the last row of the SELECT first.
MaxOf(S) == CHOOSE i \in S : \A j \in S : i >= j

\* The first of the rows left: the lowest rowid.
MinOf(S) == CHOOSE i \in S : \A j \in S : i <= j

\* Mutant: a reminder due one unit after now counts as due.
NotYetDueOffByOne(remind_at_dt, at) == remind_at_dt > at + 1

\* if remind_at_dt > now { continue; }
NotYetDue(remind_at_dt, at) == remind_at_dt > at

\* check_and_fire: lock the connection, sample now, prepare the SELECT.
ScanBegin ==
    /\ up
    /\ wpc = "ready"
    /\ lock = "free"
    /\ lock' = "worker"
    /\ scanNow' = now
    /\ cursor' = 0
    /\ wpc' = "scan"
    /\ last' = Idle
    /\ UNCHANGED <<handlerVars, storeVars, now, up, histVars>>

\* One iteration of `for row in rows` up to the call of send_notification.
ScanRow ==
    /\ up
    /\ wpc = "scan"
    /\ PendingAfter(reminders, tasks, cursor) # {}
    /\ LET id == MinOf(PendingAfter(reminders, tasks, cursor))
           remind_at_dt == normalize_datetime(reminders[id].remind_at)
       IN  /\ cursor' = id
           /\ IF ~remind_at_dt.some
              THEN /\ reminders' = MarkTriggered(reminders, id)
                   /\ wpc' = "scan"
              ELSE IF NotYetDue(remind_at_dt.v, scanNow)
              THEN /\ wpc' = "scan"
                   /\ UNCHANGED reminders
              ELSE /\ wpc' = "notify"
                   /\ UNCHANGED reminders
    /\ last' = Idle
    /\ UNCHANGED <<handlerVars, tasks, taskSeq, reminderSeq, now, up, lock, scanNow, histVars>>

\* Mutant: the scan goes on to the UPDATE without showing a notification.
NotifyLeftOut ==
    /\ up
    /\ wpc = "notify"
    /\ wpc' = "mark"
    /\ last' = Idle
    /\ UNCHANGED <<handlerVars, storeVars, now, up, lock, scanNow, cursor, histVars>>

\* Mutant: late is taken against the clock at the time of the notification,
\* not against the now of the scan.
LateAtCurrentTime(due_dt, at) == due_dt.some /\ due_dt.v < now

\* due_dt.map(|d| d < now).unwrap_or(false)
Late(due_dt, at) == due_dt.some /\ due_dt.v < at

\* send_notification returned Ok: the notification has been shown.  The
\* task's title, priority and tags are whatever the row holds.
NotifyOk ==
    /\ up
    /\ wpc = "notify"
    /\ wpc' = "mark"
    /\ fired' = fired \cup {cursor}
    /\ delivered' = delivered \cup {cursor}
    /\ \E title \in Titles, priority \in Priorities, tags \in TagTexts :
          LET due_dt == NormalizeOpt(tasks[reminders[cursor].task_id].due_date)
              late == Late(due_dt, scanNow)
          IN  last' = [Step("notification", cursor, NoneStr, "ok") EXCEPT
                         !.shown = <<[late |-> late,
                                      notification |->
                                        send_notification(title, priority, tags,
                                                          due_dt, late)]>>]
    /\ UNCHANGED <<handlerVars, storeVars, now, up, lock, scanNow, cursor>>

\* eprintln!("reminder check failed: {}", err)
CheckFailed == "reminder check failed"

\* Mutant: the error of a scan ends the worker thread.
NotifyErrEndsWorker ==
    /\ up
    /\ wpc = "notify"
    /\ wpc' = "ended"
    /\ lock' = "free"
    /\ scanNow' = 0
    /\ cursor' = 0
    /\ last' = Step("check_and_fire", cursor, NoneStr, CheckFailed)
    /\ UNCHANGED <<handlerVars, storeVars, now, up, histVars>>

\* Mutant: the reminder is marked triggered although its dispatch failed.
NotifyErrMarks ==
    /\ up
    /\ wpc = "notify"
    /\ wpc' = "sleep"
    /\ lock' = "free"
    /\ scanNow' = 0
    /\ cursor' = 0
    /\ reminders' = [reminders EXCEPT ![cursor].triggered = TRUE]
    /\ last' = Step("check_and_fire", cursor, NoneStr, CheckFailed)
    /\ UNCHANGED <<handlerVars, tasks, taskSeq, reminderSeq, now, up, histVars>>

\* send_notification returned Err: `?` leaves check_and_fire, the guard is
\* dropped, the worker logs the error and sleeps.
NotifyErr ==
    /\ up
    /\ wpc = "notify"
    /\ wpc' = "sleep"
    /\ lock' = "free"
    /\ scanNow' = 0
    /\ cursor' = 0
    /\ last' = Step("check_and_fire", cursor, NoneStr, CheckFailed)
    /\ UNCHANGED <<handlerVars, storeVars, now, up, histVars>>

\* UPDATE reminders SET triggered = 1 after the notification.
ScanMark ==
    /\ up
    /\ wpc = "mark"
    /\ reminders' = MarkTriggered(reminders, cursor)
    /\ wpc' = "scan"
    /\ last' = Idle
    /\ UNCHANGED <<handlerVars, tasks, taskSeq, reminderSeq, now, up, lock, scanNow, cursor, histVars>>

\* Mutant: start_reminder_worker without its loop: the thread returns after
\* the first check_and_fire.
ScanEndEndsWorker ==
    /\ up
    /\ wpc = "scan"
    /\ PendingAfter(reminders, tasks, cursor) = {}
    /\ wpc' = "ended"
    /\ lock' = "free"
    /\ scanNow' = 0
    /\ cursor' = 0
    /\ last' = Idle
    /\ UNCHANGED <<handlerVars, storeVars, now, up, histVars>>

\* The SELECT is exhausted: Ok(()), the guard is dropped, the worker sleeps.
ScanEnd ==
    /\ up
    /\ wpc = "scan"
    /\ PendingAfter(reminders, tasks, cursor) = {}
    /\ wpc' = "sleep"
    /\ lock' = "free"
    /\ scanNow' = 0
    /\ cursor' = 0
    /\ last' = Idle
    /\ UNCHANGED <<handlerVars, storeVars, now, up, histVars>>

\* thread::sleep(CHECK_INTERVAL_SECS) has elapsed.
Wake ==
    /\ up
    /\ wpc = "sleep"
    /\ wpc' = "ready"
    /\ last' = Idle
    /\ UNCHANGED <<handlerVars, storeVars, now, up, lock, scanNow, cursor, histVars>>

\* The wall clock advances.
Tick ==
    /\ now < MaxNow
    /\ now' = now + 1
    /\ last' = Idle
    /\ UNCHANGED <<handlerVars, storeVars, up, lock, workerVars, histVars>>

\* ----------------------------------------------------------- stop / start
\* The process stops: the threads and the mutex are gone, the database file
\* keeps every statement that has completed (autocommit).
Crash ==
    /\ up
    /\ up' = FALSE
    /\ lock' = "free"
    /\ wpc' = "down"
    /\ scanNow' = 0
    /\ cursor' = 0
    /\ last' = Step("stop", 0, NoneStr, "")
    /\ UNCHANGED <<handlerVars, storeVars, now, histVars>>

\* CREATE TABLE IF NOT EXISTS / CREATE UNIQUE INDEX IF NOT EXISTS on a file
\* that has them.
init_reminders_table(rs) == rs

\* main(): init_database, then start_reminder_worker.
Restart ==
    /\ ~up
    /\ up' = TRUE
    /\ wpc' = "ready"
    /\ reminders' = init_reminders_table(reminders)
    /\ last' = Step("start", 0, NoneStr, "")
    /\ UNCHANGED <<handlerVars, tasks, taskSeq, reminderSeq, now, lock, scanNow, cursor, histVars>>

\* ------------------------------------------------------------------- Next
\* Task ids a caller may name: those ever assigned, and one never assigned.
TaskIds == 1..(MaxTasks + 1)
ReminderIds == 1..MaxReminders

Commands ==
    \/ \E due \in DueInputs : add_task(due)
    \/ \E id \in TaskIds, due \in DueInputs : update_task(id, due)
    \/ \E id \in TaskIds : delete_task(id)
    \/ \E id \in TaskIds, raw \in ReminderInputs : create_reminder(id, raw)
    \/ \E id \in TaskIds : get_reminders_for_task(id)
    \/ \E id \in ReminderIds : delete_reminder(id)

Worker ==
    \/ ScanBegin
    \/ ScanRow
    \/ NotifyOk
    \/ NotifyErr
    \/ ScanMark
    \/ ScanEnd
    \/ Wake

Next == Commands \/ Worker \/ Tick

Spec == Init /\ [][Next]_vars

\* The worker thread keeps being scheduled: thread::sleep returns, the
\* notification plugin returns, the mutex is handed over once it is free.
SpecLive == Spec /\ WF_vars(Worker)

NextRestart == Next \/ Crash \/ Restart

SpecRestart == Init /\ [][NextRestart]_vars

\* ------------------------------------------------- the handlers step by step
\* The command handlers run one at a time on the main thread.  Here a handler
\* is followed through its call of state.0.lock(), its statements and its
\* return; hpc is "idle", "lock" (in lock()), "body" (guard in hand),
\* "return" (statements done), "requery" (add_subject in the lock() of
\* get_subjects) or "requery_body".
HandlerCall ==
    /\ up
    /\ hpc = "idle"
    /\ hpc' = "lock"
    /\ UNCHANGED <<storeVars, now, up, lock, workerVars, last, histVars, subjects>>

\* state.0.lock() returns the guard.  (It returns Err only for a mutex
\* poisoned by a panic under the guard; no handler and no scan panics there.)
HandlerLock ==
    /\ up
    /\ hpc \in {"lock", "requery"}
    /\ lock = "free"
    /\ lock' = "handler"
    /\ hpc' = IF hpc = "lock" THEN "body" ELSE "requery_body"
    /\ UNCHANGED <<storeVars, now, up, workerVars, last, histVars, subjects>>

\* Mutant: add_subject calls get_subjects without drop(conn).
add_subject_keeps_guard(inserted) ==
    /\ up
    /\ hpc = "body"
    /\ lock = "handler"
    /\ inserted => subjects < MaxSubjects
    /\ subjects' = IF inserted THEN subjects + 1 ELSE subjects
    /\ lock' = IF inserted THEN lock ELSE "free"
    /\ hpc' = IF inserted THEN "requery" ELSE "idle"
    /\ last' = Step("add_subject", 0, NoneStr, IF inserted THEN "" ELSE "error")
    /\ UNCHANGED <<storeVars, now, up, workerVars, histVars>>

\* add_subject up to its call of get_subjects: the INSERT, then drop(conn);
\* if the INSERT fails, `?` returns the error and the guard is dropped.
add_subject(inserted) ==
    /\ up
    /\ hpc = "body"
    /\ lock = "handler"
    /\ inserted => subjects < MaxSubjects
    /\ subjects' = IF inserted THEN subjects + 1 ELSE subjects
    /\ lock' = "free"
    /\ hpc' = IF inserted THEN "requery" ELSE "idle"
    /\ last' = Step("add_subject", 0, NoneStr, IF inserted THEN "" ELSE "error")
    /\ UNCHANGED <<storeVars, now, up, workerVars, histVars>>

\* The statements of get_subjects, called as a command or by add_subject:
\* SELECT ... FROM subjects ORDER BY name.
get_subjects ==
    /\ up
    /\ hpc \in {"body", "requery_body"}
    /\ lock = "handler"
    /\ hpc' = "return"
    /\ last' = Step(IF hpc = "body" THEN "get_subjects" ELSE "add_subject",
                    subjects, NoneStr, "ok")
    /\ UNCHANGED <<storeVars, now, up, lock, workerVars, histVars, subjects>>

\* The handler returns: its guard goes out of scope.
HandlerReturn ==
    /\ up
    /\ hpc = "return"
    /\ lock = "handler"
    /\ lock' = "free"
    /\ hpc' = "idle"
    /\ UNCHANGED <<storeVars, now, up, workerVars, last, histVars, subjects>>

\* The steps of a handler that holds the guard.  The handlers followed are
\* update_task (one lock() at its top, the guard dropped at its return, as in
\* every handler of tasks and reminders), add_subject (drop(conn), then a
\* second handler) and get_subjects.
HandlerRuns ==
    \/ \E id \in TaskIds, due \in DueInputs : update_task(id, due)
    \/ \E inserted \in BOOLEAN : add_subject(inserted)
    \/ get_subjects
    \/ HandlerReturn

\* The application is running with one task, due at instant 1, and one
\* pending reminder for it at that instant.
InitLock ==
    /\ tasks = [i \in {1} |-> [due_date |-> Str("local_minute", 1 + LocalOffset, 0)]]
    /\ taskSeq = 1
    /\ reminders = [i \in {1} |-> [task_id |-> 1, remind_at |-> to_rfc3339(1),
                                    triggered |-> FALSE]]
    /\ reminderSeq = 1
    /\ now = 0
    /\ up = TRUE
    /\ lock = "free"
    /\ wpc = "ready"
    /\ scanNow = 0
    /\ cursor = 0
    /\ fired = {}
    /\ delivered = {}
    /\ subjects = 0
    /\ last = Idle
    /\ hpc = "idle"

NextLock == HandlerCall \/ HandlerLock \/ HandlerRuns \/ Worker \/ Tick

SpecLock == InitLock /\ [][NextLock]_vars

\* Both threads are scheduled, and a thread blocked in lock() gets the mutex:
\* the worker leaves it free for the length of its sleep, the handlers from
\* one command of the user to the next.
SpecLockLive ==
    /\ SpecLock
    /\ WF_vars(HandlerRuns)
    /\ WF_vars(ScanRow \/ NotifyOk \/ NotifyErr \/ ScanMark \/ ScanEnd \/ Wake)
    /\ SF_vars(HandlerLock)
    /\ SF_vars(ScanBegin)

\* ---------------------------------------------------- the pure functions
\* A call of one of the pure functions: its arguments, then its value.
Call(op, input) == [op |-> op, input |-> input, done |-> FALSE, output |-> None]

\* Timestamp texts: every form, at every clock reading, with and without an
\* offset.
TimeTexts ==
    {Str(f, c, o) : f \in {"rfc3339", "local_minute", "local_seconds"},
                    c \in LocalOffset..FoldClock, o \in {0, LocalOffset}}
    \cup {BadStr, EmptyStr}

DueInstants == {None} \cup {Some(t) : t \in 0..MaxInstant}

NotificationInputs ==
    [title : Titles, priority : Priorities, tags : TagTexts,
     due_dt : DueInstants, late : BOOLEAN]

\* Rows of the reminders table as the commands leave them: a remind_at
\* written by to_rfc3339, within the four-digit years or one past them.
StoredRows ==
    [task_id : TaskIds,
     remind_at : {to_rfc3339(t) : t \in 0..(MaxInstant + 1)},
     triggered : BOOLEAN]

\* Tables of reminders that idx_reminders_unique admits.
StoredTables ==
    {rs \in UNION {[ids -> StoredRows] : ids \in SUBSET ReminderIds} :
        \A i \in DOMAIN rs : ~UniqueConflict(rs, i, rs[i].task_id, rs[i].remind_at)}

RecalculationInputs ==
    [rs : StoredTables, task_id : TaskIds,
     previous_due_date : DueInputs, new_due_date : DueInputs]

Calls ==
    {Call("normalize_datetime", raw) : raw \in TimeTexts}
    \cup {Call("send_notification", n) : n \in NotificationInputs}
    \cup {Call("recalculate_reminders_for_task", r) : r \in RecalculationInputs}

InitFn == InitStore /\ last \in Calls /\ hpc = "atomic"

call_normalize_datetime ==
    /\ last.op = "normalize_datetime"
    /\ ~last.done
    /\ last' = [last EXCEPT !.done = TRUE, !.output = normalize_datetime(last.input)]
    /\ UNCHANGED <<handlerVars, storeVars, now, up, lock, workerVars, histVars>>

call_send_notification ==
    /\ last.op = "send_notification"
    /\ ~last.done
    /\ last' = [last EXCEPT !.done = TRUE,
                  !.output = send_notification(last.input.title, last.input.priority,
                                 last.input.tags, last.input.due_dt, last.input.late)]
    /\ UNCHANGED <<handlerVars, storeVars, now, up, lock, workerVars, histVars>>

call_recalculate_reminders_for_task ==
    /\ last.op = "recalculate_reminders_for_task"
    /\ ~last.done
    /\ last' = [last EXCEPT !.done = TRUE,
                  !.output = recalculate_reminders_for_task(last.input.rs,
                                 last.input.task_id, last.input.previous_due_date,
                                 last.input.new_due_date)]
    /\ UNCHANGED <<handlerVars, storeVars, now, up, lock, workerVars, histVars>>

NextFn ==
    \/ call_normalize_datetime
    \/ call_send_notification
    \/ call_recalculate_reminders_for_task

SpecFn == InitFn /\ [][NextFn]_vars

\* ================================================================ claims
\* Steps, told apart by what they leave in `last` and in the worker.
IsUpdateTask == last'.op = "update_task"
IsCreateReminder == last'.op = "create_reminder"
IsNotifyOk == wpc = "notify" /\ wpc' = "mark"

\* The due dates recalculation is given by an update_task step on task id.
PrevDue(id) == NormalizeOpt(PreviousDueDate(tasks, id))
NewDue(id) == NormalizeOpt(PreviousDueDate(tasks', id))

Parses(s) == normalize_datetime(s).some
Instant(s) == normalize_datetime(s).v

\* ---------------------------------------------------------------------- C1
\* C1: a reminder is shown at most once for each value of its remind_at: no
\* notification is shown for a reminder that has been shown one since its
\* remind_at last changed value.
C1_AtMostOncePerRemindAt ==
    [][IsNotifyOk => cursor \notin fired]_vars

\* ---------------------------------------------------------------------- C2
\* C2 as claimed: across a stop and a start (also one between showing the
\* notification and marking the reminder), no reminder already shown is shown
\* again, and every pending reminder stays in the store, pending.
C2_NoRedispatchAfterRestart ==
    [][/\ IsNotifyOk => cursor \notin delivered
       /\ up # up' => reminders' = reminders]_vars

\* C2 as amended: a stop and a start leave the store as it is (pending
\* reminders stay present and pending, triggered ones stay triggered), and a
\* notification is only ever shown for a reminder stored as untriggered.
C2_RestartKeepsStore ==
    [][/\ IsNotifyOk => (cursor \in DOMAIN reminders /\ ~reminders[cursor].triggered)
       /\ up # up' => (reminders' = reminders /\ tasks' = tasks)]_vars

\* The process has started again after it stopped between a notification and
\* its mark: one reminder is triggered, the other is shown but still pending.
C2_Witness ==
    /\ last.op = "start"
    /\ \E i \in DOMAIN reminders : reminders[i].triggered /\ i \in delivered
    /\ \E i \in DOMAIN reminders : ~reminders[i].triggered /\ i \in delivered

\* ---------------------------------------------------------------------- C3
\* C3: after update_task moves a due date from prevDue to newDue (both
\* normalizable), every reminder r of the task has
\* newDue - r.remind_at' = prevDue - r.remind_at.
C3_LeadTimePreserved ==
    [][(IsUpdateTask /\ PrevDue(last'.id).some /\ NewDue(last'.id).some) =>
          \A i \in DOMAIN reminders :
              (reminders[i].task_id = last'.id /\ Parses(reminders[i].remind_at)) =>
                  /\ i \in DOMAIN reminders'
                  /\ Parses(reminders'[i].remind_at)
                  /\ NewDue(last'.id).v - Instant(reminders'[i].remind_at)
                        = PrevDue(last'.id).v - Instant(reminders[i].remind_at)]_vars

\* ---------------------------------------------------------------------- C4
\* C4: an update_task that leaves the task's due date as it was leaves every
\* reminder's remind_at and triggered as they were.
C4_SameDueKeepsReminders ==
    [][(IsUpdateTask /\ tasks' = tasks) => reminders' = reminders]_vars

\* ---------------------------------------------------------------------- C5
\* C5: triggered goes from false to true only in a step of a scan, on the row
\* the scan stands on, and from true to false only in an update_task step whose
\* recalculation (both due dates normalizable) ran the UPDATE that rewrites
\* that reminder's remind_at.
C5_TriggeredTransitions ==
    [][\A i \in DOMAIN reminders \cap DOMAIN reminders' :
          /\ (~reminders[i].triggered /\ reminders'[i].triggered) =>
                (lock = "worker" /\ wpc \in {"scan", "mark"} /\ cursor' = i)
          /\ (reminders[i].triggered /\ ~reminders'[i].triggered) =>
                /\ IsUpdateTask
                /\ reminders[i].task_id = last'.id
                /\ i \in last'.updated
                /\ PrevDue(last'.id).some /\ NewDue(last'.id).some]_vars

\* A reminder that a scan had marked has been reset by a recalculation.
C5_Witness ==
    /\ last.op = "update_task"
    /\ \E i \in last.reset : i \in fired /\ ~reminders[i].triggered

\* ---------------------------------------------------------------------- C6
\* C6: a reminder whose remind_at an update_task step changes is stored with
\* triggered = false, whatever the flag was, and is among the rows the next
\* scan selects.
C6_ShiftResetsTriggered ==
    [][IsUpdateTask =>
          \A i \in DOMAIN reminders :
              reminders'[i].remind_at # reminders[i].remind_at =>
                  /\ ~reminders'[i].triggered
                  /\ i \in PendingAfter(reminders', tasks', 0)]_vars

\* A triggered reminder has been shifted to a time that is due, and is pending.
C6_Witness ==
    /\ last.op = "update_task"
    /\ \E i \in last.reset :
          /\ i \notin fired
          /\ Parses(reminders[i].remind_at)
          /\ Instant(reminders[i].remind_at) <= now
          /\ ~reminders[i].triggered

\* ---------------------------------------------------------------------- C7
\* C7: an update_task whose previous or new due date is absent or does not
\* normalize leaves every reminder as it was and returns success.
C7_NoAnchorNoOp ==
    [][(IsUpdateTask /\ (~PrevDue(last'.id).some \/ ~NewDue(last'.id).some)) =>
          (reminders' = reminders /\ last'.result = "ok")]_vars

\* update_task has returned for a task whose new due date does not normalize
\* and that has a triggered reminder.
C7_Witness ==
    /\ last.op = "update_task"
    /\ last.result = "ok"
    /\ last.id \in DOMAIN tasks
    /\ ~NormalizeOpt(tasks[last.id].due_date).some
    /\ \E i \in DOMAIN reminders :
          reminders[i].task_id = last.id /\ reminders[i].triggered

\* ---------------------------------------------------------------------- C8
\* The due date moves later by the distance from reminder i to a later
\* reminder of the same task: i's shifted time is that reminder's remind_at.
CollidesWithLater(i) ==
    /\ reminders[i].task_id = last'.id
    /\ PrevDue(last'.id).some /\ NewDue(last'.id).some
    /\ NewDue(last'.id).v > PrevDue(last'.id).v
    /\ Parses(reminders[i].remind_at)
    /\ \E j \in DOMAIN reminders :
          /\ j # i
          /\ reminders[j].task_id = last'.id
          /\ reminders[j].remind_at =
                to_rfc3339(Instant(reminders[i].remind_at)
                           + NewDue(last'.id).v - PrevDue(last'.id).v)

\* C8: when a reminder's shifted time collides with another reminder of the
\* task, only that reminder's update is skipped (it keeps its remind_at and
\* triggered), every other reminder of the task is still processed, and
\* update_task returns success.
C8_CollisionSkipsOne ==
    [][IsUpdateTask =>
          \A i \in DOMAIN reminders :
              CollidesWithLater(i) =>
                  /\ last'.result = "ok"
                  /\ reminders'[i] = reminders[i]
                  /\ i \in last'.skipped
                  /\ \A k \in DOMAIN reminders :
                        (reminders[k].task_id = last'.id
                            /\ Parses(reminders[k].remind_at)) =>
                                k \in last'.updated \cup last'.skipped]_vars

\* An update_task has returned success with one reminder skipped on a
\* collision and another one shifted.
C8_Witness ==
    /\ last.op = "update_task"
    /\ last.result = "ok"
    /\ last.skipped # {}
    /\ last.updated \ last.skipped # {}

\* ---------------------------------------------------------------------- C9
\* C9: no two reminders have the same task_id and the same remind_at.
C9_UniqueTaskTime ==
    \A i \in DOMAIN reminders : \A j \in DOMAIN reminders :
        (i # j /\ reminders[i].task_id = reminders[j].task_id) =>
            reminders[i].remind_at # reminders[j].remind_at

\* Two reminders of one task are stored and a create_reminder for a time one
\* of them holds has just been refused.
C9_Witness ==
    /\ Cardinality(DOMAIN reminders) = 2
    /\ last.op = "create_reminder"
    /\ last.result = DuplicateReminder
    /\ \E i \in DOMAIN reminders :
          reminders[i].task_id = last.id
          /\ reminders[i].remind_at = to_rfc3339(Instant(last.raw))

\* --------------------------------------------------------------------- C10
\* The timestamp passed normalizes to the instant of a stored reminder of the
\* task.
SameInstantStored(task_id, raw) ==
    /\ Parses(raw)
    /\ \E j \in DOMAIN reminders :
          /\ reminders[j].task_id = task_id
          /\ normalize_datetime(reminders[j].remind_at) = normalize_datetime(raw)

\* C10: create_reminder for a task and a timestamp that normalizes to the
\* instant of one of the task's reminders fails with the duplicate-reminder
\* error and leaves the store as it was.
C10_DuplicateRejected ==
    [][(IsCreateReminder /\ SameInstantStored(last'.id, last'.raw)) =>
          /\ last'.result = DuplicateReminder
          /\ reminders' = reminders
          /\ reminderSeq' = reminderSeq]_vars

\* A create_reminder written as local date-space-time-with-seconds has been
\* refused as a duplicate of a stored reminder of the same instant.
C10_Witness ==
    /\ last.op = "create_reminder"
    /\ last.raw.fmt = "local_seconds"
    /\ last.result = DuplicateReminder
    /\ \E j \in DOMAIN reminders :
          /\ reminders[j].task_id = last.id
          /\ normalize_datetime(reminders[j].remind_at) = normalize_datetime(last.raw)

\* --------------------------------------------------------------------- C11
\* The text is in none of the three forms normalize_datetime reads.
MatchesNoGrammar(raw) ==
    raw.fmt \notin {"rfc3339", "local_minute", "local_seconds"}

\* C11: create_reminder with a timestamp that matches none of the accepted
\* grammars returns the invalid-time failure and inserts no row.
C11_InvalidTimeRejected ==
    [][(IsCreateReminder /\ MatchesNoGrammar(last'.raw)) =>
          /\ last'.result = InvalidTime
          /\ reminders' = reminders
          /\ reminderSeq' = reminderSeq]_vars

\* create_reminder for an existing task that has a reminder has just refused
\* a text that is no timestamp.
C11_Witness ==
    /\ last.op = "create_reminder"
    /\ last.raw = BadStr
    /\ last.result = InvalidTime
    /\ last.id \in DOMAIN tasks
    /\ \E i \in DOMAIN reminders : reminders[i].task_id = last.id

\* --------------------------------------------------------------------- C12
\* A reminder of the task is stored at the normalized time of raw.
PairStored(rs, task_id, raw) ==
    \E j \in DOMAIN rs :
        rs[j].task_id = task_id /\ rs[j].remind_at = to_rfc3339(Instant(raw))

\* C12: create_reminder ends in one of three ways: the invalid-time failure
\* when normalization fails, the duplicate failure when (task, normalized
\* time) is stored already, and otherwise success with exactly one new
\* reminder (task_id, normalized time, triggered = false), for every task_id,
\* also one no task has.
C12_ThreeOutcomes ==
    [][IsCreateReminder =>
          IF ~Parses(last'.raw)
          THEN last'.result = InvalidTime /\ reminders' = reminders
          ELSE IF PairStored(reminders, last'.id, last'.raw)
          THEN last'.result = DuplicateReminder /\ reminders' = reminders
          ELSE /\ last'.result = "ok"
               /\ \E n \in DOMAIN reminders' \ DOMAIN reminders :
                     /\ DOMAIN reminders' = DOMAIN reminders \cup {n}
                     /\ reminders'[n] = [task_id |-> last'.id,
                                         remind_at |-> to_rfc3339(Instant(last'.raw)),
                                         triggered |-> FALSE]
                     /\ \A i \in DOMAIN reminders : reminders'[i] = reminders[i]]_vars

\* --------------------------------------------------------------------- C13
\* C13: create_reminder returns the duplicate message only when a reminder
\* with the same task_id and normalized remind_at is stored; any other
\* failure of the INSERT carries another message.
C13_DuplicateOnlyForDuplicates ==
    [][(IsCreateReminder /\ last'.result = DuplicateReminder) =>
          PairStored(reminders, last'.id, last'.raw)]_vars

\* --------------------------------------------------------------------- C14
\* Reminder i is parseable, of an existing task and at or before the time t.
DueAt(i, t) ==
    /\ reminders[i].task_id \in DOMAIN tasks
    /\ Parses(reminders[i].remind_at)
    /\ Instant(reminders[i].remind_at) <= t

IsScanRow == wpc = "scan" /\ wpc' \in {"scan", "notify"} /\ cursor' # cursor
IsScanMark == wpc = "mark" /\ wpc' = "scan"
IsScanEnd == wpc = "scan" /\ wpc' = "sleep"

\* C14: a scan goes through the untriggered reminders of existing tasks one
\* by one without leaving any out, sends each one that is due at the scan's
\* now to the notification step once and marks it triggered; when the scan
\* ends every such reminder is triggered and has been shown, and no reminder
\* shown since it was last recalculated is shown again.
C14_ScanDispatchesDueOnce ==
    [][/\ IsScanRow =>
            /\ cursor' > cursor
            /\ \A i \in DOMAIN reminders :
                  (cursor < i /\ i < cursor') =>
                      i \notin PendingAfter(reminders, tasks, 0)
            /\ (~reminders[cursor'].triggered /\ DueAt(cursor', scanNow)) =>
                  wpc' = "notify"
       /\ IsNotifyOk =>
            /\ cursor \notin delivered
            /\ ~reminders[cursor].triggered
            /\ DueAt(cursor, scanNow)
       /\ IsScanMark =>
            /\ reminders'[cursor].triggered
            /\ cursor \in delivered
       /\ IsScanEnd =>
            \A i \in DOMAIN reminders :
                DueAt(i, scanNow) => (reminders[i].triggered /\ i \in delivered)]_vars

\* A scan has ended after showing and marking two reminders.
C14_Witness ==
    /\ wpc = "sleep"
    /\ last = Idle
    /\ Cardinality(delivered) = 2
    /\ \A i \in delivered : reminders[i].triggered /\ DueAt(i, now)

\* --------------------------------------------------------------------- C15
\* C15: while a scan runs, a reminder whose remind_at is later than the
\* scan's now is neither sent to the notification step nor marked: it is
\* stored unchanged, triggered = false included.
C15_FutureLeftPending ==
    [][lock = "worker" =>
          \A i \in DOMAIN reminders :
              (Parses(reminders[i].remind_at)
                  /\ Instant(reminders[i].remind_at) > scanNow) =>
                      /\ i \in DOMAIN reminders'
                      /\ reminders'[i] = reminders[i]
                      /\ ~(wpc' = "notify" /\ cursor' = i)]_vars

\* The scan has stepped over an untriggered reminder that is not due yet and
\* goes on.
C15_Witness ==
    /\ wpc = "scan"
    /\ cursor \in DOMAIN reminders
    /\ Parses(reminders[cursor].remind_at)
    /\ Instant(reminders[cursor].remind_at) > scanNow
    /\ ~reminders[cursor].triggered

\* --------------------------------------------------------------------- C16
\* C16: the scan marks an untriggered reminder whose remind_at does not
\* normalize as triggered without showing a notification and goes on with the
\* rows left; from then on the reminder stays as it is, triggered, so no
\* later scan selects it.
C16_CorruptSilenced ==
    [][/\ (IsScanRow /\ ~Parses(reminders[cursor'].remind_at)) =>
            /\ reminders' = [reminders EXCEPT ![cursor'].triggered = TRUE]
            /\ wpc' = "scan"
            /\ lock' = "worker"
            /\ fired' = fired /\ delivered' = delivered
       /\ \A i \in DOMAIN reminders \cap DOMAIN reminders' :
            (~Parses(reminders[i].remind_at) /\ reminders[i].triggered) =>
                /\ reminders'[i] = reminders[i]
                /\ i \notin PendingAfter(reminders', tasks', 0)]_vars

\* The scan has just marked a reminder that does not normalize, without a
\* notification, and has a row left to go on with.
C16_Witness ==
    /\ wpc = "scan"
    /\ cursor \in DOMAIN reminders
    /\ ~Parses(reminders[cursor].remind_at)
    /\ reminders[cursor].triggered
    /\ cursor \notin delivered
    /\ PendingAfter(reminders, tasks, cursor) # {}

\* --------------------------------------------------------------------- C17
IsNotifyErr == wpc = "notify" /\ wpc' \notin {"notify", "mark"}

\* C17: when the notification step fails the scan ends at once: nothing is
\* written (the failing reminder stays untriggered, those marked before stay
\* triggered, the rows after it are not looked at), the lock is released, the
\* worker sleeps before it scans again, and the failing reminder is among the
\* rows the next scan selects.
C17_DispatchFailureAborts ==
    [][IsNotifyErr =>
          /\ wpc' = "sleep"
          /\ lock' = "free"
          /\ reminders' = reminders
          /\ tasks' = tasks
          /\ fired' = fired /\ delivered' = delivered
          /\ ~reminders'[cursor].triggered
          /\ cursor \in PendingAfter(reminders', tasks', 0)
          /\ last'.op = "check_and_fire"]_vars

\* A scan marked one reminder and then failed to show the next one, which is
\* still untriggered while the worker sleeps.
C17_Witness ==
    /\ last.op = "check_and_fire"
    /\ wpc = "sleep"
    /\ ~reminders[last.id].triggered
    /\ \E j \in DOMAIN reminders :
          j < last.id /\ reminders[j].triggered /\ j \in delivered

\* --------------------------------------------------------------------- C18
CommandOps ==
    {"add_task", "update_task", "delete_task", "create_reminder",
     "get_reminders_for_task", "delete_reminder"}

\* C18: the worker holds the lock exactly from the start of a scan to its
\* end, a command runs only with the lock free and leaves the scan where it
\* was, and while the scan holds the lock (the dispatch of a notification
\* included) no command takes effect: tasks are unchanged, no reminder is
\* added or deleted, and the only reminder written is the one the scan marks.
C18_StoreMutualExclusion ==
    [][/\ (lock = "worker") = (wpc \in {"scan", "notify", "mark"})
       /\ last'.op \in CommandOps =>
            (lock = "free" /\ lock' = "free" /\ wpc' = wpc /\ cursor' = cursor)
       /\ (lock = "worker" /\ up') =>
            /\ last'.op \notin CommandOps
            /\ tasks' = tasks
            /\ DOMAIN reminders' = DOMAIN reminders
            /\ \A i \in DOMAIN reminders :
                  reminders'[i] # reminders[i] =>
                      (i = cursor' /\ reminders'[i] = [reminders[i] EXCEPT !.triggered = TRUE])]_vars

\* A notification is being dispatched in the middle of a scan that has rows
\* left, with two reminders stored.
C18_Witness ==
    /\ lock = "worker"
    /\ wpc = "notify"
    /\ Cardinality(DOMAIN reminders) = 2
    /\ PendingAfter(reminders, tasks, cursor) # {}

\* --------------------------------------------------------------------- C19
\* C19: update_task is one exclusive section: it starts and ends with the
\* lock free and the worker outside a scan, and in the step that writes the
\* task's due date (both due dates normalizable) the recalculation has gone
\* through every reminder of the task that normalizes: each was rewritten
\* (and is pending) or skipped on a collision.
C19_RecalculationInSameSection ==
    [][IsUpdateTask =>
          /\ lock = "free" /\ lock' = "free"
          /\ wpc \in {"ready", "sleep"} /\ wpc' = wpc
          /\ (PrevDue(last'.id).some /\ NewDue(last'.id).some) =>
                \A i \in DOMAIN reminders :
                    (reminders[i].task_id = last'.id
                        /\ Parses(reminders[i].remind_at)) =>
                            \/ i \in last'.skipped /\ reminders'[i] = reminders[i]
                            \/ i \in last'.updated /\ ~reminders'[i].triggered]_vars

\* update_task has returned for a task with a new due date and a reminder
\* that was shifted, is pending and still normalizes.
C19_Witness ==
    /\ last.op = "update_task"
    /\ last.result = "ok"
    /\ lock = "free"
    /\ last.id \in DOMAIN tasks
    /\ NormalizeOpt(tasks[last.id].due_date).some
    /\ \E i \in last.updated :
          /\ i \notin fired
          /\ Parses(reminders[i].remind_at)
          /\ ~reminders[i].triggered

\* --------------------------------------------------------------------- C20
\* The moves of the worker thread: scan at once, then sleep and scan in turn.
WorkerMoves ==
    {<<"ready", "scan">>, <<"scan", "notify">>, <<"notify", "mark">>,
     <<"mark", "scan">>, <<"scan", "sleep">>, <<"notify", "sleep">>,
     <<"sleep", "ready">>}

\* C20: the worker starts at its first scan with no sleep before it; it moves
\* only from a scan (ended, or failed at the notification step) to the sleep
\* and from the sleep to the next scan, so a scan begins only after the one
\* before has returned; under fair scheduling it scans and sleeps again and
\* again for ever, after a failed scan as well.
C20_WorkerLoopsForever ==
    /\ wpc = "ready"
    /\ [][wpc' # wpc => <<wpc, wpc'>> \in WorkerMoves]_vars
    /\ []<>(wpc = "scan")
    /\ []<>(wpc = "sleep")

\* The worker sleeps after a scan that failed at the notification step; a
\* notification had been shown before the failure.
C20_Witness ==
    /\ wpc = "sleep"
    /\ last.op = "check_and_fire"
    /\ last.result = CheckFailed
    /\ delivered # {}

\* --------------------------------------------------------------------- C21
IsDeleteTask == last'.op = "delete_task"

\* C21: every stored reminder belongs to an existing task; delete_task
\* removes the task's reminders and no others; and no notification is
\* dispatched for a reminder whose task is gone.
C21_CascadeOnTaskDelete ==
    [][/\ \A i \in DOMAIN reminders' : reminders'[i].task_id \in DOMAIN tasks'
       /\ IsDeleteTask =>
            /\ last'.id \notin DOMAIN tasks'
            /\ DOMAIN reminders' =
                  {i \in DOMAIN reminders : reminders[i].task_id # last'.id}
            /\ \A i \in DOMAIN reminders' : reminders'[i] = reminders[i]
       /\ IsNotifyOk =>
            (cursor \in DOMAIN reminders
                /\ reminders[cursor].task_id \in DOMAIN tasks)]_vars

\* delete_task has returned for a task that existed; two reminders had been
\* created and none is stored any more.
C21_Witness ==
    /\ last.op = "delete_task"
    /\ taskSeq >= last.id
    /\ last.id \notin DOMAIN tasks
    /\ reminderSeq = 2
    /\ DOMAIN reminders = {}
    /\ last.result = "ok"

\* --------------------------------------------------------------------- C22
IsDeleteReminder == last'.op = "delete_reminder"

\* C22: delete_reminder returns success whether or not the id exists; it
\* removes the reminder with that id and no other, leaves the store as it is
\* when there is none, and deleting the same id again changes nothing more.
C22_DeleteReminderIdempotent ==
    [][IsDeleteReminder =>
          /\ last'.result = "ok"
          /\ DOMAIN reminders' = DOMAIN reminders \ {last'.id}
          /\ \A i \in DOMAIN reminders' : reminders'[i] = reminders[i]
          /\ last'.id \notin DOMAIN reminders => reminders' = reminders
          /\ DeleteReminderRow(reminders', last'.id) = reminders'
          /\ tasks' = tasks]_vars

\* delete_reminder has returned success for an id no reminder ever had, and
\* the reminder that is stored is still there.
C22_Witness ==
    /\ last.op = "delete_reminder"
    /\ last.result = "ok"
    /\ last.id > reminderSeq
    /\ DOMAIN reminders # {}

\* --------------------------------------------------------------------- C23
IsGetReminders == last'.op = "get_reminders_for_task"

\* The instant a stored remind_at denotes.
Denotes(s) == s.clock - s.off

\* C23: get_reminders_for_task(t) returns the reminders with task_id t, each
\* once and as stored, in ascending order of the instants their remind_at
\* denote (the empty sequence when there are none) and changes nothing.
C23_ListingOrderedByInstant ==
    [][IsGetReminders =>
          LET rows == last'.rows
          IN  /\ reminders' = reminders /\ tasks' = tasks
              /\ {rows[k].id : k \in DOMAIN rows} =
                    {i \in DOMAIN reminders : reminders[i].task_id = last'.id}
              /\ \A k \in DOMAIN rows : rows[k] = ReminderOf(reminders, rows[k].id)
              /\ \A k \in DOMAIN rows : \A l \in DOMAIN rows :
                    k < l => /\ rows[k].id # rows[l].id
                             /\ Denotes(rows[k].remind_at) <= Denotes(rows[l].remind_at)]_vars

\* --------------------------------------------------------------------- C26
\* The kinds of the parts of a body, in their order.
Kinds(body) == [k \in DOMAIN body |-> body[k].part]

\* The subsequence of <<due, priority, category, late>> of the parts present.
KindsPresent(due, priority, category, late) ==
    (IF due THEN <<"due">> ELSE <<>>)
        \o (IF priority THEN <<"priority">> ELSE <<>>)
        \o (IF category THEN <<"category">> ELSE <<>>)
        \o (IF late THEN <<"late">> ELSE <<>>)

\* C26: send_notification gives the task's title as the title; the body has
\* the due time of day exactly when the due instant is present, the priority
\* exactly when it is not empty, the first tag exactly when the tag text
\* parses to a list that is not empty, the late marker exactly when late, in
\* this order; with no part present the body is the generic text.
C26_NotificationContent ==
    (last.op = "send_notification" /\ last.done) =>
        LET in == last.input
            out == last.output
            present == KindsPresent(in.due_dt.some, in.priority # "",
                                    in.tags.json /\ in.tags.list # <<>>, in.late)
        IN  /\ out.title = in.title
            /\ IF present = <<>>
               THEN out.body = GenericBody
               ELSE /\ Kinds(out.body) = present
                    /\ \A k \in DOMAIN out.body :
                          /\ out.body[k].part = "due" =>
                                out.body[k].hm = (in.due_dt.v + LocalOffset) % DayLength
                          /\ out.body[k].part = "priority" =>
                                out.body[k].text = in.priority
                          /\ out.body[k].part = "category" =>
                                out.body[k].text = in.tags.list[1]

\* send_notification has returned a body of all four parts.
C26_Witness ==
    /\ last.op = "send_notification"
    /\ last.done
    /\ Kinds(last.output.body) = <<"due", "priority", "category", "late">>
    /\ Len(last.input.tags.list) = 2

\* --------------------------------------------------------------------- C27
\* The instant a timestamp text means: the clock reading less the offset it
\* states, or less the host's offset when it states none.
Meant(raw) ==
    IF raw.fmt = "rfc3339" THEN raw.clock - raw.off ELSE raw.clock - LocalOffset

\* The text is in one of the three forms, and if it is a local time the
\* host's timezone has that clock reading exactly once.
Resolvable(raw) ==
    \/ raw.fmt = "rfc3339"
    \/ raw.fmt \in {"local_minute", "local_seconds"}
          /\ raw.clock \notin {GapClock, FoldClock}

\* C27: normalize_datetime returns the instant the text means for a text in
\* one of the three forms, so that texts of different forms that mean one
\* instant have the same value, and none for any other text and for a local
\* time the timezone skips or has twice.
C27_NormalizeByMeaning ==
    (last.op = "normalize_datetime" /\ last.done) =>
        /\ Resolvable(last.input) => last.output = Some(Meant(last.input))
        /\ ~Resolvable(last.input) => last.output = None
        /\ \A other \in TimeTexts :
              (Resolvable(last.input) /\ Resolvable(other)
                  /\ Meant(other) = Meant(last.input)) =>
                      normalize_datetime(other) = last.output

\* normalize_datetime has returned an instant for a local time with seconds
\* that an offset-aware text and a local date-and-minute text mean as well.
C27_Witness ==
    /\ last.op = "normalize_datetime"
    /\ last.done
    /\ last.input.fmt = "local_seconds"
    /\ last.output.some
    /\ \E a \in TimeTexts, b \in TimeTexts :
          /\ a.fmt = "rfc3339" /\ a.off = LocalOffset /\ b.fmt = "local_minute"
          /\ normalize_datetime(a) = last.output
          /\ normalize_datetime(b) = last.output

\* --------------------------------------------------------------------- C24
\* C24: every stored remind_at is the UTC RFC 3339 text of its instant, so
\* two reminders of one task are at the same instant exactly when their
\* remind_at texts are equal.
C24_CanonicalForm ==
    \A i \in DOMAIN reminders :
        /\ reminders[i].remind_at.fmt = "rfc3339"
        /\ reminders[i].remind_at.off = 0
        /\ \A j \in DOMAIN reminders :
              reminders[j].task_id = reminders[i].task_id =>
                  ((Denotes(reminders[i].remind_at) = Denotes(reminders[j].remind_at))
                      <=> (reminders[i].remind_at = reminders[j].remind_at))

\* --------------------------------------------------------------------- C25
\* The notification the scan builds for the reminder it stands on, for a task
\* "Submit report" of priority "High".
NotificationFor(i) ==
    LET due_dt == NormalizeOpt(tasks[reminders[i].task_id].due_date)
    IN  send_notification("Submit report", "High", [json |-> TRUE, list |-> <<>>],
                          due_dt, due_dt.some /\ due_dt.v < scanNow)

\* C25: for a task with one reminder set before its due date, moving the due
\* date later moves the reminder later by as much and leaves it untriggered;
\* the notification a scan then shows for it has the reminder's time of day
\* and the task's priority in its body.
C25_ShiftThenNotifyScenario ==
    [][/\ (IsUpdateTask /\ PrevDue(last'.id).some /\ NewDue(last'.id).some
             /\ NewDue(last'.id).v > PrevDue(last'.id).v) =>
            \A i \in DOMAIN reminders :
                (/\ reminders[i].task_id = last'.id
                 /\ \A j \in DOMAIN reminders : reminders[j].task_id = last'.id => j = i
                 /\ Parses(reminders[i].remind_at)
                 /\ Instant(reminders[i].remind_at) < PrevDue(last'.id).v
                 /\ Instant(reminders[i].remind_at) + NewDue(last'.id).v
                        - PrevDue(last'.id).v <= MaxInstant) =>
                    /\ reminders'[i].remind_at =
                          to_rfc3339(Instant(reminders[i].remind_at)
                                     + NewDue(last'.id).v - PrevDue(last'.id).v)
                    /\ ~reminders'[i].triggered
       /\ (IsNotifyOk /\ NormalizeOpt(tasks[reminders[cursor].task_id].due_date).some) =>
            LET body == NotificationFor(cursor).body
            IN  /\ \E k \in DOMAIN body :
                      /\ body[k].part = "due"
                      /\ body[k].hm = LocalHourMinute(Instant(reminders[cursor].remind_at))
                /\ \E k \in DOMAIN body :
                      body[k].part = "priority" /\ body[k].text = "High"]_vars

\* --------------------------------------------------------------------- C28
\* C28: a reminder whose remind_at can be read goes from untriggered to
\* triggered only in the UPDATE that follows its own notification in the
\* same scan: the step is the scan's marking of the row under the cursor,
\* the notification for that row has been shown, and the marking position is
\* entered by nothing but a successful notification of that row.
C28_MarkedOnlyAfterDispatch ==
    /\ [][\A i \in DOMAIN reminders \cap DOMAIN reminders' :
             (/\ ~reminders[i].triggered
              /\ reminders'[i].triggered
              /\ Parses(reminders[i].remind_at)) =>
                 /\ IsScanMark
                 /\ lock = "worker"
                 /\ cursor = i
                 /\ i \in delivered]_vars
    /\ [][(wpc # "mark" /\ wpc' = "mark") =>
             /\ IsNotifyOk
             /\ cursor' = cursor
             /\ cursor \notin delivered
             /\ cursor \in delivered'
             /\ reminders' = reminders]_vars

\* A scan has shown and marked one reminder and has left another one, not
\* due yet and never shown, untriggered.
C28_Witness ==
    /\ wpc = "scan"
    /\ cursor \in DOMAIN reminders
    /\ Parses(reminders[cursor].remind_at)
    /\ reminders[cursor].triggered
    /\ cursor \in delivered
    /\ \E j \in DOMAIN reminders :
          /\ j # cursor
          /\ Parses(reminders[j].remind_at)
          /\ ~reminders[j].triggered
          /\ j \notin delivered

\* --------------------------------------------------------------------- C29
IsRecalculated == last.op = "recalculate_reminders_for_task" /\ last.done

\* The part of C29 on the frame: recalculation for a task leaves the set of
\* reminder ids as it was and every reminder of another task as it was.
C29_Frame ==
    IsRecalculated =>
        /\ DOMAIN last.output.rs = DOMAIN last.input.rs
        /\ \A i \in DOMAIN last.input.rs :
              last.input.rs[i].task_id # last.input.task_id =>
                  last.output.rs[i] = last.input.rs[i]

\* C29: recalculation for a task leaves the set of reminder ids as it was
\* and every reminder of another task as it was, and a reminder whose update
\* was skipped on a collision has the remind_at and the triggered flag it
\* had before the recalculation.
C29_RecalculationFrame ==
    /\ C29_Frame
    /\ IsRecalculated =>
          \A i \in last.output.skipped :
              /\ i \in DOMAIN last.output.rs
              /\ last.output.rs[i] = last.input.rs[i]

\* --------------------------------------------------------------------- C30
\* Reminder b is stored for an existing task, untriggered, readable and due.
DuePending(b) ==
    /\ b \in PendingAfter(reminders, tasks, 0)
    /\ Parses(reminders[b].remind_at)
    /\ Instant(reminders[b].remind_at) <= now

\* The scan that ended last failed at the notification of reminder a.
FailedAt(a) == last.op = "check_and_fire" /\ last.id = a

\* C30: whatever the notifications of other reminders do, a reminder whose
\* own notification never fails does not stay due and untriggered for ever:
\* some scan shows it and marks it triggered (unless a command takes it away
\* or moves it first).
C30_FailureDoesNotStarveOthers ==
    \A b \in ReminderIds :
        [](~FailedAt(b)) => (DuePending(b) ~> ~DuePending(b))

\* --------------------------------------------------------------------- C31
\* Reminder b has been shown and marked, or is no longer a stored, readable
\* reminder whose time has come (a command removed it or moved it).
ShownAndMarkedOrGone(b) ==
    \/ /\ b \in DOMAIN reminders
       /\ reminders[b].triggered
       /\ b \in delivered
    \/ b \notin DOMAIN reminders
    \/ ~Parses(reminders[b].remind_at)
    \/ Instant(reminders[b].remind_at) > now

\* C31: with the worker scheduled and no notification failing, a reminder
\* that is stored untriggered for an existing task with its remind_at reached
\* is in the end shown and marked triggered, unless a command removes or
\* moves it first; and a scan that ends has shown and marked every reminder
\* that was due at the now it sampled when it started.
C31_DueReminderEventuallyFired ==
    /\ [][IsScanEnd =>
             \A i \in DOMAIN reminders :
                 DueAt(i, scanNow) =>
                     (reminders'[i].triggered /\ i \in delivered')]_vars
    /\ \A b \in ReminderIds :
          [](last.op # "check_and_fire") =>
              (DuePending(b) ~> ShownAndMarkedOrGone(b))

\* The clock has reached the remind_at of a reminder, and a scan that began
\* no earlier has shown it, marked it and ended.
C31_Witness ==
    /\ wpc = "sleep"
    /\ last = Idle
    /\ now = MaxNow
    /\ \E b \in DOMAIN reminders :
          /\ DueAt(b, now)
          /\ Instant(reminders[b].remind_at) = now
          /\ reminders[b].triggered
          /\ b \in delivered

\* --------------------------------------------------------------------- C32
\* A step taken while the worker holds the connection: a step of the scan
\* (the clock may also advance meanwhile).
InScan == lock = "worker" \/ lock' = "worker"

\* C32: a scan writes nothing but triggered = true on reminders it has
\* stepped to: tasks and the id counters stay as they are, no reminder is
\* created or deleted, no task_id or remind_at changes, a reminder that is
\* triggered stays exactly as it is, and a reminder whose flag changes is the
\* one under the cursor and goes from false to true.
C32_ScanWritesOnlyTriggered ==
    [][InScan =>
          /\ tasks' = tasks
          /\ taskSeq' = taskSeq
          /\ reminderSeq' = reminderSeq
          /\ DOMAIN reminders' = DOMAIN reminders
          /\ \A i \in DOMAIN reminders :
                /\ reminders'[i].task_id = reminders[i].task_id
                /\ reminders'[i].remind_at = reminders[i].remind_at
                /\ reminders[i].triggered => reminders'[i] = reminders[i]
                /\ reminders'[i] # reminders[i] =>
                      /\ cursor' = i
                      /\ ~reminders[i].triggered
                      /\ reminders'[i].triggered]_vars

\* A scan has marked the reminder under its cursor; a reminder further on in
\* the table was triggered before this scan began.
C32_Witness ==
    /\ wpc = "scan"
    /\ lock = "worker"
    /\ cursor \in DOMAIN reminders
    /\ reminders[cursor].triggered
    /\ \E j \in DOMAIN reminders : j > cursor /\ reminders[j].triggered

\* --------------------------------------------------------------------- C33
\* Ids that have been given to a reminder and are no longer stored.
DeletedIds == (1..reminderSeq) \ DOMAIN reminders

\* C33: delete_reminder runs while no scan is under way and leaves its id
\* out of the store; an id that is no longer stored never comes back, the
\* scan never steps to it and no notification is shown for it.
C33_NoDispatchAfterDelete ==
    [][/\ IsDeleteReminder =>
            /\ lock = "free"
            /\ wpc \notin {"scan", "notify", "mark"}
            /\ last'.id \notin DOMAIN reminders'
            /\ last'.id <= reminderSeq => last'.id \in DeletedIds'
       /\ \A i \in DeletedIds :
            /\ i \in DeletedIds'
            /\ cursor' # i
            /\ IsNotifyOk => cursor # i
            /\ i \notin delivered']_vars

\* No task was ever deleted; a reminder was deleted by delete_reminder and a
\* scan that began later has stepped past its place in the table to a later
\* reminder.
C33_Witness ==
    /\ DOMAIN tasks = 1..taskSeq
    /\ lock = "worker"
    /\ cursor \in DOMAIN reminders
    /\ \E i \in DeletedIds : i < cursor

\* --------------------------------------------------------------------- C34
\* The due_date column of the task of the reminder under the cursor.
DueOfCursor == tasks[reminders[cursor].task_id].due_date

\* C34: a notification that is shown carries the late marker exactly when
\* the task's due date normalizes to an instant strictly before the now the
\* scan sampled when it started, and the due-time part exactly when the due
\* date normalizes; for a due date that is absent, empty or unreadable there
\* is neither.
C34_LateMarker ==
    [][IsNotifyOk =>
          LET shown == last'.shown[1]
              body == shown.notification.body
              kinds == {body[k].part : k \in DOMAIN body}
          IN  /\ last'.op = "notification"
              /\ last'.id = cursor
              /\ shown.late <=>
                    (Parses(DueOfCursor) /\ Instant(DueOfCursor) < scanNow)
              /\ ("late" \in kinds) <=> shown.late
              /\ ("due" \in kinds) <=> Parses(DueOfCursor)
              /\ ~Parses(DueOfCursor) =>
                    (~shown.late /\ "late" \notin kinds /\ "due" \notin kinds)]_vars

\* A notification has been shown without the late marker for a task whose
\* due instant is the scan's now, while the clock has since gone past it.
C34_Witness ==
    /\ wpc = "mark"
    /\ last.op = "notification"
    /\ ~last.shown[1].late
    /\ Parses(DueOfCursor)
    /\ Instant(DueOfCursor) = scanNow
    /\ Instant(DueOfCursor) < now

\* --------------------------------------------------------------------- C35
\* The handler stands in a call of lock().
HandlerWaits == hpc \in {"lock", "requery"}

\* C35: the mutex is held by the handler exactly while it stands between a
\* lock() that returned and its return or drop(conn), and by the worker
\* exactly during a scan, so no lock() is called by the thread that holds the
\* guard; whoever holds the mutex releases it, by success and by error alike;
\* and a handler or a scan that waits in lock() gets the mutex.
C35_LockAlwaysReleased ==
    /\ [](/\ (lock = "handler") = (hpc \in {"body", "requery_body", "return"})
          /\ (lock = "worker") = (wpc \in {"scan", "notify", "mark"})
          /\ HandlerWaits => lock # "handler")
    /\ (lock = "handler") ~> (lock = "free")
    /\ (lock = "worker") ~> (lock = "free")
    /\ HandlerWaits ~> (lock = "handler")
    /\ (wpc = "ready") ~> (lock = "worker")

\* add_subject has dropped its guard and waits in the lock() of get_subjects
\* while a scan holds the mutex.
C35_Witness ==
    /\ hpc = "requery"
    /\ lock = "worker"
    /\ wpc = "notify"
    /\ subjects > 0

====
